---- MODULE Spec2Model ----
(***************************************************************************)
(* Model of the realtime-subscription client, app/hooks/useRealtime.js     *)
(* (src/unnamed/part_002, lines 61-417).                                   *)
(*                                                                         *)
(* The hook's React state (isConnected, connectionStatus, error,           *)
(* retryCount, lastHeartbeat) and its refs (channelRef, heartbeatRef,      *)
(* retryTimeoutRef, appStateRef, isNetworkConnectedRef) are the variables  *)
(* of the same names; lastHeartbeat, which the hook only writes, is the    *)
(* heartbeat observation of `obs`.  Every synchronous stretch of a handler *)
(* is one action; an `await` ends the stretch and leaves an entry in       *)
(* `calls` that a later action resumes.                                    *)
(*                                                                         *)
(* The configuration is immutable, so every useCallback keeps the function *)
(* of the first render: connect (deps at line 290 do not list              *)
(* scheduleRetry) always calls the scheduleRetry of the first render,      *)
(* whose closure holds retryCount as it was in that render.                *)
(*                                                                         *)
(* The transport channel (supabase-js), NetInfo and AppState are external  *)
(* collaborators: their reports are the inputs of the model.  The          *)
(* transport does not throw; it answers through the status callbacks.      *)
(*                                                                         *)
(* The rate limiter of the inference client,                               *)
(* app/services/huggingFaceClient.js, is a second state machine (SpecHF)   *)
(* over the variables requestCount, rateLimitReset and requests; each of   *)
(* the two specifications leaves the variables of the other as they are.   *)
(***************************************************************************)
EXTENDS Integers, FiniteSets, Sequences, Bags, TLC

\* ---------------------------------------------------------------- bounds
MaxChannels == 2
MaxCalls == 2
MaxRetryCount == 2
MaxInFlight == 2

\* ------------------------------------------------------ program constants
retryDelay == 1000
CapturedRetryCount == 0
DefaultHeartbeatInterval == 30000
maxRequestsPerHour == 1000
MAX_RETRIES == 3

\* --------------------------------------------------------------- domains
Null == 0
Channels == 1..MaxChannels
TimerIds == 1..2
Kinds == {"INSERT", "UPDATE", "DELETE"}
AppStates == {"active", "background", "inactive"}

StrEvent(x) == [isArray |-> FALSE, str |-> x, arr |-> {}]
ArrEvent(x) == [isArray |-> TRUE, str |-> "", arr |-> x]

\* The configurations the hook is constructed with.
Config(en, tb, ev, ra, hb) ==
  [enabled |-> en, table |-> tb, event |-> ev, retryAttempts |-> ra,
   heartbeatInterval |-> hb]
ConfigChoices ==
  { Config(TRUE, "leads", StrEvent("INSERT"), 2, DefaultHeartbeatInterval),
    Config(TRUE, "leads", StrEvent("*"), 0, DefaultHeartbeatInterval),
    Config(TRUE, "leads", ArrEvent({"INSERT", "DELETE"}), 0, 0),
    Config(FALSE, "leads", StrEvent("*"), 2, DefaultHeartbeatInterval),
    Config(TRUE, "", StrEvent("*"), 2, DefaultHeartbeatInterval) }

VARIABLES
  enabled, table, event, retryAttempts, heartbeatInterval,
  isConnected, connectionStatus, error, retryCount,
  channelRef, heartbeatRef, retryTimeoutRef, appStateRef, isNetworkConnectedRef,
  chan, timers, calls, mounted,
  obs, phase,
  requestCount, rateLimitReset, requests

config == <<enabled, table, event, retryAttempts, heartbeatInterval>>
vars == <<enabled, table, event, retryAttempts, heartbeatInterval,
          isConnected, connectionStatus, error, retryCount,
          channelRef, heartbeatRef, retryTimeoutRef, appStateRef, isNetworkConnectedRef,
          chan, timers, calls, mounted, obs, phase,
          requestCount, rateLimitReset, requests>>

\* The variables of the realtime client and those of the inference client.
realtime == <<enabled, table, event, retryAttempts, heartbeatInterval,
              isConnected, connectionStatus, error, retryCount,
              channelRef, heartbeatRef, retryTimeoutRef, appStateRef,
              isNetworkConnectedRef, chan, timers, calls, mounted, obs, phase>>
inference == <<requestCount, rateLimitReset, requests>>

RECURSIVE Pow2(_)
Pow2(n) == IF n = 0 THEN 1 ELSE 2 * Pow2(n - 1)

\* ---------------------------------------------------------- observations
\* What the running handler did, as its caller or the transport sees it:
\*   op         "message" (a change message dispatched), "publish" (send or
\*              trackPresence: a message handed to the channel), "heartbeat"
\*              (a tick of the heartbeat interval), "none" (no handler running);
\*   kind       the operation kind of the change message;
\*   invoked    a user handler (onInsert/onUpdate/onDelete) was called;
\*   threw      the handler, or the call itself, threw;
\*   transport  the handler called send/track on a transport channel;
\*   onError    onError was called.
NoObs == [op |-> "none", kind |-> "", invoked |-> FALSE, threw |-> FALSE,
          transport |-> FALSE, onError |-> FALSE]

UnusedChannel == [st |-> "unused", routes |-> {}]

\* The mutable state of the hook as one record, so that the handlers below
\* compose in the order of the statements of the source.
S == [isConnected |-> isConnected, connectionStatus |-> connectionStatus,
      error |-> error, retryCount |-> retryCount,
      channelRef |-> channelRef, heartbeatRef |-> heartbeatRef,
      retryTimeoutRef |-> retryTimeoutRef, appStateRef |-> appStateRef,
      isNetworkConnectedRef |-> isNetworkConnectedRef,
      chan |-> chan, timers |-> timers, calls |-> calls,
      obs |-> NoObs, fits |-> TRUE]

Referenced(s, c) ==
  \/ s.channelRef = c
  \/ \E r \in BagToSet(s.calls) : r.ch = c

\* A channel object that is closed and that nothing refers to any more is
\* garbage: its identifier is free again.
Collect(s) ==
  IF \A c \in Channels : s.chan[c].st # "closed" THEN s ELSE
  [s EXCEPT !.chan = [c \in Channels |->
      IF s.chan[c].st = "closed" /\ ~Referenced(s, c) THEN UnusedChannel ELSE s.chan[c]]]

\* Channel identifiers name heap objects: two states that differ only in the
\* names of their channels are the same state.  Canon renames the channels
\* of a state into the order of their roles: the transport state first, then
\* whether channelRef holds the channel and which calls await it.
StateCode(st) ==
  CASE st = "joining" -> 0 [] st = "joined" -> 1 [] st = "errored" -> 2
    [] st = "closed" -> 3 [] OTHER -> 4

Awaiting(b, o, p, c) == CopiesIn([op |-> o, pc |-> p, ch |-> c, ahead |-> 0], b)

CallsOn(b, c) ==
  Awaiting(b, "connect", "unsubscribe", c)
    + (MaxCalls + 1) * (Awaiting(b, "connect", "subscribe", c)
    + (MaxCalls + 1) * (Awaiting(b, "disconnect", "unsubscribe", c)
    + (MaxCalls + 1) * Awaiting(b, "reconnect", "unsubscribe", c)))

HeldKey(s, c) == (IF s.channelRef = c THEN 1 ELSE 0) + 2 * CallsOn(s.calls, c)

InOrder(s, c, d) ==
  \/ StateCode(s.chan[c].st) < StateCode(s.chan[d].st)
  \/ /\ s.chan[c].st = s.chan[d].st
     /\ (s.chan[c].st = "unused" \/ HeldKey(s, c) <= HeldKey(s, d))

Other(x, c, d) == IF x = c THEN d ELSE IF x = d THEN c ELSE x

SwapCalls(b, c, d) ==
  [x \in {[r EXCEPT !.ch = Other(r.ch, c, d)] : r \in DOMAIN b} |->
     b[[x EXCEPT !.ch = Other(x.ch, c, d)]]]

Swap(s, c, d) ==
  [s EXCEPT !.chan = [@ EXCEPT ![c] = s.chan[d], ![d] = s.chan[c]],
            !.channelRef = Other(s.channelRef, c, d),
            !.calls = SwapCalls(s.calls, c, d)]

Ordered(s) == \A c \in Channels : c < MaxChannels => InOrder(s, c, c + 1)

Inversion(s) == CHOOSE c \in Channels : c < MaxChannels /\ ~InOrder(s, c, c + 1)

RECURSIVE Canon(_)
Canon(s) ==
  IF Ordered(s) THEN s ELSE Canon(Swap(s, Inversion(s), Inversion(s) + 1))

\* The state a handler leaves becomes the next state.  A handler that
\* touched no channel, call or handle leaves the channels in their order.
Commit(s) ==
  \E u \in {s} : u.fits /\
  \E t \in {IF u.chan = chan /\ u.calls = calls /\ u.channelRef = channelRef
             THEN u ELSE Canon(Collect(u))} :
  /\ isConnected' = t.isConnected
  /\ connectionStatus' = t.connectionStatus
  /\ error' = t.error
  /\ retryCount' = t.retryCount
  /\ channelRef' = t.channelRef
  /\ heartbeatRef' = t.heartbeatRef
  /\ retryTimeoutRef' = t.retryTimeoutRef
  /\ appStateRef' = t.appStateRef
  /\ isNetworkConnectedRef' = t.isNetworkConnectedRef
  /\ chan' = t.chan
  /\ timers' = t.timers
  /\ calls' = t.calls
  /\ obs' = t.obs
  /\ UNCHANGED config
  /\ UNCHANGED inference

AddCall(s, r) ==
  [s EXCEPT !.calls = s.calls (+) SetToBag({r}),
            !.fits = s.fits /\ BagCardinality(s.calls) < MaxCalls]

DropCall(s, r) == [s EXCEPT !.calls = s.calls (-) SetToBag({r})]

\* The continuation after `await channel.subscribe(...)` (line 255) and the
\* .then callback of reconnect() (line 338) are jobs of the microtask queue,
\* which runs them in the order they were queued.  The continuations of the
\* channels being opened are alike, so the order is kept as the number of
\* them that are ahead of each .then callback.
Continuations(b) ==
  BagCardinality([r \in {q \in DOMAIN b : q.pc = "subscribe"} |-> b[r]])

Moved(r, n) == IF r.pc = "then" THEN [r EXCEPT !.ahead = r.ahead + n] ELSE r

\* One continuation has run: one less is ahead of every .then callback.
Advance(b) == [x \in {Moved(r, -1) : r \in DOMAIN b} |-> b[Moved(x, 1)]]

AtHead(b, r) ==
  IF r.pc = "then" THEN r.ahead = 0
  ELSE \A q \in DOMAIN b : q.pc = "then" => q.ahead > 0

\* ------------------------------------------------------------- heartbeat
\* Lines 131-146: setInterval(callback, heartbeatInterval) arms the interval
\* whatever the value of heartbeatInterval, 0 included; the handle it returns
\* is not null.
startHeartbeat(s) == [s EXCEPT !.heartbeatRef = 1]

stopHeartbeat(s) ==
  IF s.heartbeatRef # Null THEN [s EXCEPT !.heartbeatRef = Null] ELSE s

\* ----------------------------------------------------------------- retry
clearTimeout(ts, id) == {t \in ts : t.id # id}

NewTimerId(s) ==
  CHOOSE i \in TimerIds :
    /\ \A t \in s.timers : t.id # i
    /\ \A j \in TimerIds : (\A t \in s.timers : t.id # j) => i <= j

\* scheduleRetry without the clearTimeout of lines 323-325.
scheduleRetry_KeepsPending(s) ==
  IF CapturedRetryCount >= retryAttempts
  THEN [s EXCEPT !.connectionStatus = "max_retries_exceeded"]
  ELSE LET delay == retryDelay * Pow2(CapturedRetryCount)
           id == NewTimerId(s)
       IN [s EXCEPT !.connectionStatus = "retrying",
                    !.timers = s.timers \cup {[id |-> id, delay |-> delay]},
                    !.retryTimeoutRef = id]

scheduleRetry(s) ==
  IF CapturedRetryCount >= retryAttempts
  THEN [s EXCEPT !.connectionStatus = "max_retries_exceeded"]
  ELSE LET cleared == IF s.retryTimeoutRef # Null
                      THEN clearTimeout(s.timers, s.retryTimeoutRef)
                      ELSE s.timers
           s1 == [s EXCEPT !.timers = cleared]
           delay == retryDelay * Pow2(CapturedRetryCount)
           id == NewTimerId(s1)
       IN [s1 EXCEPT !.connectionStatus = "retrying",
                     !.timers = cleared \cup {[id |-> id, delay |-> delay]},
                     !.retryTimeoutRef = id]

\* ------------------------------------------------------------ event mask
\* String.prototype.includes / Array.prototype.includes on the configured
\* `event`: element membership for an array, substring for a string (the
\* strings of ConfigChoices contain an operation kind only when equal to it).
includes(ev, k) == IF ev.isArray THEN k \in ev.arr ELSE ev.str = k

\* The UPDATE route registered whatever the mask.
registers_UpdateAlways(ev, k) ==
  \/ (~ev.isArray /\ ev.str = "*")
  \/ (~ev.isArray /\ ev.str = k)
  \/ includes(ev, k)
  \/ k = "UPDATE"

registers(ev, k) ==
  \/ (~ev.isArray /\ ev.str = "*")
  \/ (~ev.isArray /\ ev.str = k)
  \/ includes(ev, k)

Routes(ev) == {k \in Kinds : registers(ev, k)}

\* --------------------------------------------------------------- channels
NewChannel(s) ==
  CHOOSE c \in Channels :
    /\ s.chan[c].st = "unused"
    /\ \A d \in Channels : s.chan[d].st = "unused" => c <= d

HasFreeChannel(s) == \E c \in Channels : s.chan[c].st = "unused"

\* unsubscribe takes the channel off its topic.  Of a channel's state the
\* client reads only whether it is 'joined' (line 137), so the transport's
\* 'leaving' and 'closed' are one state here.
unsubscribe(s, c) == [s EXCEPT !.chan[c].st = "closed"]

\* ---------------------------------------------------------------- connect
\* Lines 171-255: create the channel, register the routes, call subscribe
\* and suspend at the await of line 255.
connectOpen(s) ==
  IF ~HasFreeChannel(s) THEN [s EXCEPT !.fits = FALSE]
  ELSE LET c == NewChannel(s)
           s1 == [s EXCEPT !.chan[c] = [st |-> "joining", routes |-> Routes(event)]]
       IN AddCall(s1, [op |-> "connect", pc |-> "subscribe", ch |-> c, ahead |-> 0])

\* connect without the test of `enabled` at line 157.
connect_IgnoresEnabled(s) ==
  IF table = "" \/ ~s.isNetworkConnectedRef THEN s
  ELSE LET s1 == [s EXCEPT !.connectionStatus = "connecting", !.error = "none"]
       IN IF s1.channelRef # Null
          THEN AddCall(unsubscribe(s1, s1.channelRef),
                       [op |-> "connect", pc |-> "unsubscribe", ch |-> s1.channelRef,
                        ahead |-> 0])
          ELSE connectOpen(s1)

\* Lines 156-169: the guard, the two state updates and the teardown of the
\* existing channel, up to the await of line 167 when there is one.
connect(s) ==
  IF ~enabled \/ table = "" \/ ~s.isNetworkConnectedRef THEN s
  ELSE LET s1 == [s EXCEPT !.connectionStatus = "connecting", !.error = "none"]
       IN IF s1.channelRef # Null
          THEN AddCall(unsubscribe(s1, s1.channelRef),
                       [op |-> "connect", pc |-> "unsubscribe", ch |-> s1.channelRef,
                        ahead |-> 0])
          ELSE connectOpen(s1)

\* ------------------------------------------------------------- disconnect
\* Lines 307-310, and for reconnect() the registration of the .then callback.
disconnectFinish(s, op) ==
  LET s1 == [s EXCEPT !.isConnected = FALSE, !.connectionStatus = "disconnected",
                      !.error = "none", !.retryCount = 0]
  IN IF op = "reconnect"
     THEN AddCall(s1, [op |-> "reconnect", pc |-> "then", ch |-> Null,
                       ahead |-> Continuations(s1.calls)])
     ELSE s1

\* Lines 292-305: synchronous up to the await of line 303 when a channel is held.
disconnect(s, op) ==
  LET s1 == stopHeartbeat([s EXCEPT !.connectionStatus = "disconnecting"])
      s2 == IF s1.retryTimeoutRef # Null
            THEN [s1 EXCEPT !.timers = clearTimeout(s1.timers, s1.retryTimeoutRef),
                            !.retryTimeoutRef = Null]
            ELSE s1
  IN IF s2.channelRef # Null
     THEN AddCall(unsubscribe(s2, s2.channelRef),
                  [op |-> op, pc |-> "unsubscribe", ch |-> s2.channelRef, ahead |-> 0])
     ELSE disconnectFinish(s2, op)

reconnect(s) == disconnect([s EXCEPT !.retryCount = 0], "reconnect")

\* ------------------------------------------------------- status callbacks
\* The callback with a retry scheduled on CLOSED as on an error.
onSubscribeStatus_ClosedRetries(s, status) ==
  CASE status = "SUBSCRIBED" ->
         startHeartbeat([s EXCEPT !.isConnected = TRUE, !.connectionStatus = "connected",
                                  !.retryCount = 0])
    [] status = "CHANNEL_ERROR" ->
         scheduleRetry(stopHeartbeat([s EXCEPT !.isConnected = FALSE,
                                               !.connectionStatus = "error",
                                               !.error = "err"]))
    [] status = "TIMED_OUT" ->
         scheduleRetry(stopHeartbeat([s EXCEPT !.isConnected = FALSE,
                                               !.connectionStatus = "timeout",
                                               !.error = "err"]))
    [] status = "CLOSED" ->
         scheduleRetry(stopHeartbeat([s EXCEPT !.isConnected = FALSE,
                                               !.connectionStatus = "disconnected"]))
    [] OTHER -> s

\* Lines 255-278: the callback passed to channel.subscribe.
onSubscribeStatus(s, status) ==
  CASE status = "SUBSCRIBED" ->
         startHeartbeat([s EXCEPT !.isConnected = TRUE, !.connectionStatus = "connected",
                                  !.retryCount = 0])
    [] status = "CHANNEL_ERROR" ->
         scheduleRetry(stopHeartbeat([s EXCEPT !.isConnected = FALSE,
                                               !.connectionStatus = "error",
                                               !.error = "err"]))
    [] status = "TIMED_OUT" ->
         scheduleRetry(stopHeartbeat([s EXCEPT !.isConnected = FALSE,
                                               !.connectionStatus = "timeout",
                                               !.error = "err"]))
    [] status = "CLOSED" ->
         stopHeartbeat([s EXCEPT !.isConnected = FALSE,
                                 !.connectionStatus = "disconnected"])
    [] OTHER -> s

\* Lines 234-247: the 'system' route.
onSystem(s, status) ==
  CASE status = "ok" ->
         startHeartbeat([s EXCEPT !.isConnected = TRUE, !.connectionStatus = "connected",
                                  !.retryCount = 0])
    [] status = "error" ->
         scheduleRetry(stopHeartbeat([s EXCEPT !.isConnected = FALSE,
                                               !.connectionStatus = "error",
                                               !.error = "err"]))
    [] OTHER -> s

\* ------------------------------------------------------- inbound messages
\* Lines 185-231: a change message of kind k arriving on a channel runs the
\* route registered for k, if there is one; the route wraps the handler in
\* try/catch and passes what it throws to onError.
\* The route without its try/catch: what the handler throws is taken for a
\* connection error.
dispatch_NoCatch(s, routes, k, throws) ==
  IF k \in routes /\ throws
  THEN scheduleRetry([s EXCEPT !.connectionStatus = "error", !.error = "err",
                               !.obs = [op |-> "message", kind |-> k, invoked |-> TRUE,
                                        threw |-> TRUE, transport |-> FALSE,
                                        onError |-> FALSE]])
  ELSE [s EXCEPT !.obs = [op |-> "message", kind |-> k, invoked |-> k \in routes,
                          threw |-> FALSE, transport |-> FALSE, onError |-> FALSE]]

dispatch(s, routes, k, throws) ==
  [s EXCEPT !.obs = [op |-> "message", kind |-> k, invoked |-> k \in routes,
                     threw |-> (k \in routes /\ throws), transport |-> FALSE,
                     onError |-> (k \in routes /\ throws)]]

\* -------------------------------------------------------------- public API
\* Lines 367-377 and 386-392.
send(s) ==
  IF s.channelRef = Null \/ ~s.isConnected
  THEN [s EXCEPT !.obs = [NoObs EXCEPT !.op = "publish", !.threw = TRUE]]
  ELSE [s EXCEPT !.obs = [NoObs EXCEPT !.op = "publish", !.transport = TRUE]]

trackPresence(s) ==
  IF s.channelRef = Null \/ ~s.isConnected
  THEN [s EXCEPT !.obs = [NoObs EXCEPT !.op = "publish", !.threw = TRUE]]
  ELSE [s EXCEPT !.obs = [NoObs EXCEPT !.op = "publish", !.transport = TRUE]]

\* ---------------------------------------------------------------- signals
\* The listener with the outage counted against the retry budget.
onNetInfo_CountsOutage(s, online) ==
  LET s1 == [s EXCEPT !.isNetworkConnectedRef = online]
  IN IF ~online /\ s1.isConnected
     THEN [s1 EXCEPT !.connectionStatus = "network_disconnected", !.isConnected = FALSE,
                     !.retryCount = s1.retryCount + 1]
     ELSE IF online /\ ~s1.isConnected /\ enabled
          THEN connect(s1)
          ELSE s1

\* Lines 98-106: the NetInfo listener.
onNetInfo(s, online) ==
  LET s1 == [s EXCEPT !.isNetworkConnectedRef = online]
  IN IF ~online /\ s1.isConnected
     THEN [s1 EXCEPT !.connectionStatus = "network_disconnected", !.isConnected = FALSE]
     ELSE IF online /\ ~s1.isConnected /\ enabled
          THEN connect(s1)
          ELSE s1

IsBackground(a) == a \in {"inactive", "background"}

\* handleAppStateChange without the test of the previous state at line 114.
handleAppStateChange_AnyForeground(s, nextAppState) ==
  LET s1 == IF nextAppState = "active"
            THEN (IF enabled /\ s.isNetworkConnectedRef THEN connect(s) ELSE s)
            ELSE IF IsBackground(nextAppState)
                 THEN disconnect(s, "disconnect")
                 ELSE s
  IN [s1 EXCEPT !.appStateRef = nextAppState]

\* Lines 113-124: handleAppStateChange.
handleAppStateChange(s, nextAppState) ==
  LET s1 == IF IsBackground(s.appStateRef) /\ nextAppState = "active"
            THEN (IF enabled /\ s.isNetworkConnectedRef THEN connect(s) ELSE s)
            ELSE IF IsBackground(nextAppState)
                 THEN disconnect(s, "disconnect")
                 ELSE s
  IN [s1 EXCEPT !.appStateRef = nextAppState]

\* Lines 330-333: the callback of the retry timer.
onRetryTimer(s, id) ==
  connect([s EXCEPT !.timers = clearTimeout(s.timers, id),
                    !.retryCount = s.retryCount + 1])

\* Lines 136-145: the callback of the heartbeat interval.
onHeartbeat(s) ==
  IF s.channelRef # Null /\ s.chan[s.channelRef].st = "joined"
  THEN [s EXCEPT !.obs = [NoObs EXCEPT !.op = "heartbeat", !.transport = TRUE]]
  ELSE [s EXCEPT !.obs = [NoObs EXCEPT !.op = "heartbeat"]]

\* ====================================================== inference client
\* makeRequest calls that can be in progress at once (the requests of one
\* batchProcess chunk run concurrently, lines 399-414).
InFlight == 1..MaxInFlight

\* A makeRequest call: where it is ("none": no call, "fetch": awaiting the
\* fetch of line 95, "delay": awaiting the backoff of line 130) and its
\* retryCount argument.
NoRequest == [pc |-> "none", retryCount |-> 0]

\* rateLimitReset against the clock: "null" (line 18), "future"
\* (Date.now() < rateLimitReset) or "past".
\* Lines 77-89: checkRateLimit; `throws` is its outcome.
checkRateLimit(h) ==
  IF h.rateLimitReset = "future"
  THEN [h EXCEPT !.throws = TRUE]
  ELSE IF h.requestCount >= maxRequestsPerHour
       THEN [h EXCEPT !.rateLimitReset = "future", !.requestCount = 0, !.throws = TRUE]
       ELSE [h EXCEPT !.throws = FALSE]

\* What the server answers, or how fetch fails.
Responses == {"ok", "429 with reset", "429", "503", "error", "timeout", "rejected"}

\* Lines 137-142: shouldRetry on the message of the error thrown.
shouldRetry(response) == response \in {"503", "timeout"}

\* Lines 128-134: the catch of makeRequest for call r.
catch(q, retryable) ==
  IF q.retryCount < MAX_RETRIES /\ retryable
  THEN [pc |-> "delay", retryCount |-> q.retryCount]
  ELSE NoRequest

\* Lines 91-95, and 131 after the backoff: the rate-limit check and, when it
\* passes, the fetch.  The error of the check is not one shouldRetry accepts.
HFStart(r) ==
  /\ requests[r].pc \in {"none", "delay"}
  /\ LET n == IF requests[r].pc = "delay" THEN requests[r].retryCount + 1 ELSE 0
         h == checkRateLimit([requestCount |-> requestCount,
                              rateLimitReset |-> rateLimitReset, throws |-> FALSE])
     IN /\ requestCount' = h.requestCount
        /\ rateLimitReset' = h.rateLimitReset
        /\ requests' = [requests EXCEPT ![r] =
               IF h.throws THEN catch([pc |-> "fetch", retryCount |-> n], FALSE)
               ELSE [pc |-> "fetch", retryCount |-> n]]
  /\ UNCHANGED realtime

\* Lines 95-134: fetch settles.  A response is counted (line 106); a fetch
\* that fails is not.
HFSettle(r, response) ==
  /\ requests[r].pc = "fetch"
  /\ requestCount' = IF response \in {"timeout", "rejected"}
                     THEN requestCount ELSE requestCount + 1
  /\ rateLimitReset' = IF response = "429 with reset" THEN "future" ELSE rateLimitReset
  /\ requests' = [requests EXCEPT ![r] =
         IF response = "ok" THEN NoRequest ELSE catch(requests[r], shouldRetry(response))]
  /\ UNCHANGED realtime

\* The clock passes rateLimitReset.
HFWindowEnds ==
  /\ rateLimitReset = "future"
  /\ rateLimitReset' = "past"
  /\ UNCHANGED <<requestCount, requests>>
  /\ UNCHANGED realtime

\* Lines 450-453: resetRequestStats.
HFResetRequestStats ==
  /\ requestCount' = 0
  /\ rateLimitReset' = "null"
  /\ UNCHANGED requests
  /\ UNCHANGED realtime

HFRequest == \E r \in InFlight : HFStart(r)
HFResponse == \E r \in InFlight, response \in Responses : HFSettle(r, response)

\* ================================================================ actions
\* `phase` records what has happened to the client so far, for the
\* properties that speak of a history:
\*   "episode"          since the initial connection every open attempt has
\*                       failed and neither the caller nor a signal stepped in
\*                       (retryCount is then the number of retries performed);
\*   "afterDisconnect"  a disconnect() has completed and since then the caller
\*                       made no connect()/reconnect() and no signal arrived;
\*                       the first state in which the client is no longer at
\*                       rest (AtRest) is the last one of the phase;
\*   "other"            anything else.
AtRest ==
  /\ connectionStatus = "disconnected"
  /\ ~isConnected
  /\ timers = {}
  /\ heartbeatRef = Null
  /\ ~(obs.op = "heartbeat" /\ obs.transport)

Lasting == IF phase = "afterDisconnect" /\ ~AtRest THEN "other" ELSE phase

AfterTransport(ph, failure) ==
  IF ph = "episode" /\ ~failure THEN "other" ELSE ph

\* JavaScript runs a handler to completion: while the outcome of a call is
\* being handed to the caller (obs), no other handler runs.
Idle == obs.op = "none"

\* channel.subscribe returns at once and disconnect() has resolved when its
\* .then callback is queued: the continuations after line 255 and at line
\* 338 are microtasks.  They run before any timer or network callback; only
\* code of the running task (caller calls, listeners of the same batch) can
\* come in between.
MicrotaskPending == \E r \in BagToSet(calls) : r.pc \in {"subscribe", "then"}
MacroTask == Idle /\ ~MicrotaskPending

Init ==
  /\ \E cfg \in ConfigChoices :
       /\ enabled = cfg.enabled
       /\ table = cfg.table
       /\ event = cfg.event
       /\ retryAttempts = cfg.retryAttempts
       /\ heartbeatInterval = cfg.heartbeatInterval
  /\ isConnected = FALSE
  /\ connectionStatus = "disconnected"
  /\ error = "none"
  /\ retryCount = 0
  /\ channelRef = Null
  /\ heartbeatRef = Null
  /\ retryTimeoutRef = Null
  /\ appStateRef = "active"
  /\ isNetworkConnectedRef = TRUE
  /\ chan = [c \in Channels |-> UnusedChannel]
  /\ timers = {}
  /\ calls = EmptyBag
  /\ mounted = FALSE
  /\ obs = NoObs
  /\ phase = "episode"
  /\ requestCount = 0
  /\ rateLimitReset = "null"
  /\ requests = [r \in InFlight |-> NoRequest]

\* Lines 346-350: the initial-connection effect of the first render.
Mount ==
  /\ ~mounted /\ Idle
  /\ mounted' = TRUE
  /\ Commit(IF enabled /\ isNetworkConnectedRef THEN connect(S) ELSE S)
  /\ UNCHANGED phase

CallConnect ==
  /\ mounted /\ Idle
  /\ Commit(connect(S))
  /\ phase' = "other"
  /\ UNCHANGED mounted

CallDisconnect ==
  /\ mounted /\ Idle
  /\ Commit(disconnect(S, "disconnect"))
  /\ phase' = IF channelRef = Null THEN "afterDisconnect" ELSE "other"
  /\ UNCHANGED mounted

CallReconnect ==
  /\ mounted /\ Idle
  /\ Commit(reconnect(S))
  /\ phase' = "other"
  /\ UNCHANGED mounted

CallSend ==
  /\ mounted /\ Idle
  /\ Commit(send(S))
  /\ phase' = Lasting
  /\ UNCHANGED mounted

CallTrackPresence ==
  /\ mounted /\ Idle
  /\ Commit(trackPresence(S))
  /\ phase' = Lasting
  /\ UNCHANGED mounted

\* The unsubscribe awaited at line 167 resolves; the transport may report
\* CLOSED to the channel's subscribe callback just before.  connect goes on
\* with lines 168-255.
ConnectAfterUnsubscribe(r, closedReport) ==
  /\ MacroTask
  /\ r \in BagToSet(calls)
  /\ r.op = "connect" /\ r.pc = "unsubscribe"
  /\ LET s1 == DropCall(S, r)
         s2 == IF closedReport THEN onSubscribeStatus(s1, "CLOSED") ELSE s1
         s3 == [s2 EXCEPT !.channelRef = Null]
     IN Commit(connectOpen(Collect(s3)))
  /\ phase' = Lasting
  /\ UNCHANGED mounted

\* The await of line 255 is over: line 280.
ConnectAfterSubscribe(r) ==
  /\ Idle
  /\ r \in BagToSet(calls)
  /\ r.op = "connect" /\ r.pc = "subscribe"
  /\ AtHead(calls, r)
  /\ Commit([DropCall(S, r) EXCEPT !.channelRef = r.ch, !.calls = Advance(@)])
  /\ phase' = Lasting
  /\ UNCHANGED mounted

\* The unsubscribe awaited at line 303 resolves: lines 304-310.
DisconnectAfterUnsubscribe(r, closedReport) ==
  /\ MacroTask
  /\ r \in BagToSet(calls)
  /\ r.op \in {"disconnect", "reconnect"} /\ r.pc = "unsubscribe"
  /\ LET s1 == DropCall(S, r)
         s2 == IF closedReport THEN onSubscribeStatus(s1, "CLOSED") ELSE s1
         s3 == [s2 EXCEPT !.channelRef = Null]
     IN Commit(disconnectFinish(s3, r.op))
  /\ phase' = IF r.op = "disconnect" THEN "afterDisconnect" ELSE Lasting
  /\ UNCHANGED mounted

\* Lines 338-342: the .then callback of reconnect().
ReconnectThen(r) ==
  /\ Idle
  /\ r \in BagToSet(calls)
  /\ r.op = "reconnect" /\ r.pc = "then"
  /\ AtHead(calls, r)
  /\ LET s1 == DropCall(S, r)
     IN Commit(IF enabled /\ s1.isNetworkConnectedRef THEN connect(s1) ELSE s1)
  /\ phase' = Lasting
  /\ UNCHANGED mounted

\* The transport reports a status to the subscribe callback of channel c.
\* A channel reports while it is open on the transport's side, whether or
\* not it is the one channelRef holds.
CanReport(st, status) ==
  CASE status = "SUBSCRIBED" -> st \in {"joining", "errored"}
    [] status = "CHANNEL_ERROR" -> st \in {"joining", "joined"}
    [] status = "TIMED_OUT" -> st = "joining"
    [] status = "CLOSED" -> st \in {"joining", "joined", "errored"}
    [] OTHER -> FALSE

AfterReport(status) ==
  CASE status = "SUBSCRIBED" -> "joined"
    [] status = "CLOSED" -> "closed"
    [] OTHER -> "errored"

\* What the subscribe callback of channel c leaves when it is called with
\* `status` in the current state.
Reported(c, status) ==
  onSubscribeStatus([S EXCEPT !.chan[c].st = AfterReport(status)], status)

TransportReport(c, status) ==
  /\ MacroTask
  /\ CanReport(chan[c].st, status)
  /\ Commit(Reported(c, status))
  /\ phase' = AfterTransport(Lasting, status \in {"CHANNEL_ERROR", "TIMED_OUT"})
  /\ UNCHANGED mounted

SystemReport(c, status) ==
  /\ MacroTask
  /\ chan[c].st = "joined"
  /\ Commit(onSystem(S, status))
  /\ phase' = AfterTransport(Lasting, status = "error")
  /\ UNCHANGED mounted

Deliver(c, k, throws) ==
  /\ MacroTask
  /\ chan[c].st = "joined"
  /\ Commit(dispatch(S, chan[c].routes, k, throws))
  /\ phase' = Lasting
  /\ UNCHANGED mounted

HeartbeatTick ==
  /\ MacroTask
  /\ heartbeatRef # Null
  /\ Commit(onHeartbeat(S))
  /\ phase' = Lasting
  /\ UNCHANGED mounted

RetryTimerFire(id) ==
  /\ MacroTask
  /\ \E t \in timers : t.id = id
  /\ retryCount < MaxRetryCount
  /\ Commit(onRetryTimer(S, id))
  /\ phase' = Lasting
  /\ UNCHANGED mounted

NetInfoChange(online) ==
  /\ mounted /\ Idle
  /\ Commit(onNetInfo(S, online))
  /\ phase' = "other"
  /\ UNCHANGED mounted

\* AppState emits 'change' when the state of the app has changed.
AppStateChange(nextAppState) ==
  /\ mounted /\ Idle
  /\ nextAppState # appStateRef
  /\ Commit(handleAppStateChange(S, nextAppState))
  /\ phase' = IF IsBackground(nextAppState) /\ channelRef = Null
              THEN "afterDisconnect" ELSE "other"
  /\ UNCHANGED mounted

\* The running handler returns to the event loop.
EndTask ==
  /\ ~Idle
  /\ obs' = NoObs
  /\ phase' = Lasting
  /\ UNCHANGED <<config, isConnected, connectionStatus, error, retryCount,
                 channelRef, heartbeatRef, retryTimeoutRef, appStateRef,
                 isNetworkConnectedRef, chan, timers, calls, mounted>>
  /\ UNCHANGED inference

CallRecords == BagToSet(calls)

ConnectUnsubscribed == \E r \in CallRecords, b \in BOOLEAN : ConnectAfterUnsubscribe(r, b)
ConnectSubscribed == \E r \in CallRecords : ConnectAfterSubscribe(r)
DisconnectUnsubscribed == \E r \in CallRecords, b \in BOOLEAN : DisconnectAfterUnsubscribe(r, b)
ReconnectResolved == \E r \in CallRecords : ReconnectThen(r)
SubscribeStatus ==
  \E c \in Channels, st \in {"SUBSCRIBED", "CHANNEL_ERROR", "TIMED_OUT", "CLOSED"} :
      TransportReport(c, st)
SystemMessage == \E c \in Channels, st \in {"ok", "error"} : SystemReport(c, st)
ChangeMessage == \E c \in Channels, k \in Kinds, th \in BOOLEAN : Deliver(c, k, th)
RetryTimer == \E id \in TimerIds : RetryTimerFire(id)
NetInfoEvent == \E b \in BOOLEAN : NetInfoChange(b)
AppStateEvent == \E a \in AppStates : AppStateChange(a)

Next ==
  \/ Mount
  \/ CallConnect
  \/ CallDisconnect
  \/ CallReconnect
  \/ CallSend
  \/ CallTrackPresence
  \/ ConnectUnsubscribed
  \/ ConnectSubscribed
  \/ DisconnectUnsubscribed
  \/ ReconnectResolved
  \/ SubscribeStatus
  \/ SystemMessage
  \/ ChangeMessage
  \/ HeartbeatTick
  \/ RetryTimer
  \/ NetInfoEvent
  \/ AppStateEvent
  \/ EndTask

Spec == Init /\ [][Next]_vars

\* The inference client on its own: the realtime client is not enabled and
\* never mounted.
HFInit == Init /\ ~enabled

HFNext ==
  \/ HFRequest
  \/ HFResponse
  \/ HFWindowEnds
  \/ HFResetRequestStats

SpecHF == HFInit /\ [][HFNext]_vars

\* ================================================================= claims
Live(c) == chan[c].st \in {"joining", "joined", "errored"}
LiveChannels == {c \in Channels : Live(c)}
Opening == {c \in Channels : chan[c].st = "joining"}

\* C1: after any sequence of connect() calls, signals, timer firings and
\* transport reports the client has at most one live channel (opened and not
\* unsubscribed), also when a second connect() is made while the first is
\* still awaiting the channel open.
C1_OneLiveChannel == Cardinality(LiveChannels) <= 1

\* A disconnect() runs its last statement (line 310) in this step.
DisconnectCompletes ==
  \/ (channelRef = Null /\ CallDisconnect)
  \/ \E r \in CallRecords, b \in BOOLEAN :
        r.op = "disconnect" /\ DisconnectAfterUnsubscribe(r, b)

\* C2: disconnect() invoked in any reachable state completes with
\* status = disconnected, retryCount = 0, no retry timer pending, no
\* heartbeat timer active and no channel handle held.
C2_DisconnectLeavesNothing ==
  [][DisconnectCompletes =>
       (/\ connectionStatus' = "disconnected"
        /\ retryCount' = 0
        /\ timers' = {}
        /\ heartbeatRef' = Null
        /\ channelRef' = Null)]_vars

\* C3: once disconnect() has completed, and as long as the caller makes no
\* connect()/reconnect() and no signal arrives, the status stays
\* disconnected, no heartbeat is sent, no retry timer is armed and no channel
\* becomes subscribed, whatever the transport reports.
C3_StaysDisconnected == phase = "afterDisconnect" => AtRest

\* C4: in a retry episode where every open attempt fails, the delay armed
\* before retry attempt n+1 is retryDelay * 2^n for every n < retryAttempts,
\* n being the number of retries already performed.
C4_ExponentialDelay ==
  (phase = "episode" /\ retryCount < retryAttempts) =>
    \A t \in timers : t.delay = retryDelay * Pow2(retryCount)

\* C5: when every open attempt fails, the client performs exactly
\* retryAttempts retries and then is in max_retries_exceeded with no retry
\* timer armed.
C5_RetriesEnd ==
  phase = "episode" =>
    /\ retryCount <= retryAttempts
    /\ (retryCount = retryAttempts => (timers = {} /\ connectionStatus # "retrying"))

\* C6: max_retries_exceeded is terminal: an 'online' report, a foreground
\* report or a transport status report neither changes the status nor opens
\* a channel; only the caller's reconnect() leaves the state.
SignalOrReport ==
  \/ (~isNetworkConnectedRef /\ isNetworkConnectedRef')
  \/ (IsBackground(appStateRef) /\ appStateRef' = "active")
  \/ SubscribeStatus
  \/ SystemMessage

C6_MaxRetriesTerminal ==
  [][(connectionStatus = "max_retries_exceeded" /\ SignalOrReport) =>
       (/\ connectionStatus' = "max_retries_exceeded"
        /\ Cardinality({c \in Channels : chan'[c].st = "joining"}) <= Cardinality(Opening))]_vars

\* C7: send() and trackPresence() invoked while status # connected throw a
\* not-connected error and make no call on a transport channel.
C7_NotConnectedThrows ==
  (obs.op = "publish" /\ connectionStatus # "connected") =>
    (obs.threw /\ ~obs.transport)

\* C8: when an onInsert/onUpdate/onDelete handler throws, the error goes to
\* onError; status, retryCount, timers and channel handle are unchanged, no
\* retry is scheduled and the routes stay registered, so later messages are
\* still dispatched.
C8_HandlerThrowIsolated ==
  [][(obs'.op = "message" /\ obs'.threw) =>
       (/\ obs'.onError
        /\ obs'.invoked
        /\ UNCHANGED <<isConnected, connectionStatus, error, retryCount, channelRef,
                       heartbeatRef, retryTimeoutRef, timers, calls, chan>>)]_vars

C8_Witness ==
  /\ obs.op = "message" /\ obs.threw /\ obs.onError
  /\ connectionStatus = "connected"
  /\ \E c \in Channels : chan[c].st = "joined" /\ obs.kind \in chan[c].routes

\* The operation kinds the configured event mask stands for.
EventMask(ev) ==
  IF ev.isArray THEN ev.arr
  ELSE IF ev.str = "*" THEN Kinds ELSE {ev.str} \cap Kinds

\* C9: every channel the client opens has a route for exactly the kinds of
\* the event mask; a message of a kind outside the mask invokes no handler
\* and raises no error.
C9_RoutesAreTheMask ==
  /\ \A c \in Channels : chan[c].st # "unused" => chan[c].routes = EventMask(event)
  /\ obs.op = "message" =>
       /\ obs.invoked <=> obs.kind \in EventMask(event)
       /\ obs.kind \notin EventMask(event) => (~obs.threw /\ ~obs.onError)

C9_Witness ==
  /\ obs.op = "message" /\ obs.kind = "UPDATE"
  /\ EventMask(event) = {"INSERT"}
  /\ ~obs.invoked

\* C10: an offline report while status = connected moves the status to
\* network_disconnected and leaves retryCount as it is; the online report
\* that follows, with enabled = true, starts a connect() (status connecting).
C10_OfflineOnline ==
  [][/\ (connectionStatus = "connected" /\ isNetworkConnectedRef /\ ~isNetworkConnectedRef')
          => (connectionStatus' = "network_disconnected" /\ retryCount' = retryCount)
     /\ (connectionStatus = "network_disconnected" /\ enabled
           /\ ~isNetworkConnectedRef /\ isNetworkConnectedRef')
          => connectionStatus' = "connecting"]_vars

C10_Witness ==
  /\ connectionStatus = "network_disconnected"
  /\ ~isNetworkConnectedRef
  /\ ~isConnected
  /\ enabled
  /\ retryCount = 0

\* C11: an offline report from the connectivity source, in any state, moves
\* the status to network_disconnected, stops the heartbeat timer and tears
\* down the channel handle.
C11_OfflineTearsDown ==
  [][NetInfoChange(FALSE) =>
       (/\ connectionStatus' = "network_disconnected"
        /\ heartbeatRef' = Null
        /\ channelRef' = Null)]_vars

\* C12: while the last connectivity report is offline, no retry timer is
\* armed or left pending and retryCount is never incremented.
C12_OutageKeepsBudget ==
  [][~isNetworkConnectedRef' =>
       (/\ timers' = {}
        /\ ~isNetworkConnectedRef => retryCount' <= retryCount)]_vars

CallerCall ==
  \/ CallConnect
  \/ CallDisconnect
  \/ CallReconnect
  \/ CallSend
  \/ CallTrackPresence

\* The client in the background with the teardown of disconnect() over:
\* status disconnected, no channel open or held, no timer, no call in flight.
BackgroundRest ==
  /\ IsBackground(appStateRef)
  /\ connectionStatus = "disconnected"
  /\ ~isConnected
  /\ LiveChannels = {}
  /\ channelRef = Null
  /\ heartbeatRef = Null
  /\ timers = {}
  /\ calls = EmptyBag

\* C13: after a background (or inactive) report the client is disconnected
\* with the channel closed, the heartbeat stopped and no retry timer armed,
\* and it stays so until a foreground report or a caller call: no other
\* step takes the client in the background out of that state.
C13_BackgroundStays ==
  [][(BackgroundRest /\ IsBackground(appStateRef') /\ ~CallerCall) =>
       (/\ connectionStatus' = "disconnected"
        /\ \A c \in Channels : chan'[c].st \notin {"joining", "joined", "errored"}
        /\ heartbeatRef' = Null
        /\ timers' = {})]_vars

\* C14: connect() called with enabled = false or with an empty table reports
\* a configuration error through onError, creates no channel and does not
\* move the status to connecting.
C14_ConfigurationError ==
  [][(CallConnect /\ (~enabled \/ table = "")) =>
       (/\ obs'.onError
        /\ chan' = chan
        /\ connectionStatus' # "connecting")]_vars

\* C15: connect() called while the status is connecting or connected is a
\* no-op: it neither closes nor replaces the current channel, does not
\* change the status and opens no channel.
C15_ConnectIdempotent ==
  [][(CallConnect /\ connectionStatus \in {"connecting", "connected"}) =>
       UNCHANGED <<connectionStatus, chan, channelRef, calls>>]_vars

\* C16: when reconnect() has run its disconnect() and goes on to connect(),
\* retryCount is 0, no retry or heartbeat timer is left, the old channel is
\* closed and, when enabled (with a table) and online, one open attempt is
\* started; the status is no longer max_retries_exceeded.
C16_ReconnectIsDisconnectConnect ==
  [][ReconnectResolved =>
       (/\ retryCount' = 0
        /\ timers' = {}
        /\ heartbeatRef' = Null
        /\ connectionStatus' # "max_retries_exceeded"
        /\ (enabled /\ table # "" /\ isNetworkConnectedRef) =>
             /\ connectionStatus' = "connecting"
             /\ Cardinality({c \in Channels :
                    chan'[c].st \in {"joining", "joined", "errored"}}) <= 1)]_vars

SubscribedReport == \E c \in Channels : TransportReport(c, "SUBSCRIBED")

\* C17: whenever the transport reports a successful subscription the client
\* is in status connected with retryCount = 0, no error recorded and the
\* heartbeat timer active; in every state with status = connected the error
\* is unset and retryCount = 0.
C17_ConnectedIsClean ==
  [][/\ SubscribedReport =>
          (/\ connectionStatus' = "connected"
           /\ retryCount' = 0
           /\ error' = "none"
           /\ heartbeatRef' # Null)
     /\ connectionStatus' = "connected" => (error' = "none" /\ retryCount' = 0)]_vars

\* C18: with heartbeatInterval = 0 no heartbeat timer is armed and no
\* heartbeat message is sent.
C18_ZeroIntervalDisables ==
  heartbeatInterval = 0 =>
    (heartbeatRef = Null /\ ~(obs.op = "heartbeat" /\ obs.transport))

\* C19: the status is at every moment one of disconnected, connecting,
\* connected, retrying, error, timeout, network_disconnected,
\* max_retries_exceeded.
C19_StatusValues ==
  connectionStatus \in {"disconnected", "connecting", "connected", "retrying",
                        "error", "timeout", "network_disconnected",
                        "max_retries_exceeded"}

\* C20: a CLOSED report sets the status to disconnected, stops the heartbeat
\* and arms no retry timer; a CHANNEL_ERROR or TIMED_OUT report records the
\* error and, when the retry budget is not exhausted, leaves the status
\* retrying with one retry timer armed.  Stated of what the subscribe
\* callback leaves, in every state in which the transport can make the report.
C20_ClosedDoesNotRetry ==
  MacroTask =>
    /\ \A c \in Channels :
         CanReport(chan[c].st, "CLOSED") =>
           /\ Reported(c, "CLOSED").connectionStatus = "disconnected"
           /\ ~Reported(c, "CLOSED").isConnected
           /\ Reported(c, "CLOSED").heartbeatRef = Null
           /\ Reported(c, "CLOSED").timers \subseteq timers
    /\ \A c \in Channels, st \in {"CHANNEL_ERROR", "TIMED_OUT"} :
         (CanReport(chan[c].st, st) /\ retryCount < retryAttempts) =>
           /\ Reported(c, st).connectionStatus = "retrying"
           /\ Reported(c, st).error = "err"
           /\ Reported(c, st).heartbeatRef = Null
           /\ Cardinality(Reported(c, st).timers) = 1
           /\ \E x \in Reported(c, st).timers : x.id = Reported(c, st).retryTimeoutRef

C20_Witness ==
  /\ connectionStatus = "retrying"
  /\ error = "err"
  /\ retryCount = 1
  /\ retryAttempts = 2
  /\ Cardinality(timers) = 1
  /\ heartbeatRef = Null

\* A step that sets retryCount back: a successful subscription (SUBSCRIBED or
\* system 'ok'), the end of disconnect(), or reconnect().
ResetStep ==
  \/ SubscribedReport
  \/ \E c \in Channels : SystemReport(c, "ok")
  \/ CallDisconnect
  \/ DisconnectUnsubscribed
  \/ CallReconnect
  \/ \E a \in {"background", "inactive"} : AppStateChange(a)

\* C21: each firing of the retry timer increments retryCount by one and
\* starts an open attempt (status connecting); retryCount decreases only to
\* 0, on a successful subscription, disconnect() or reconnect().
C21_TimerFiring ==
  [][/\ RetryTimer => (retryCount' = retryCount + 1 /\ connectionStatus' = "connecting")
     /\ retryCount' < retryCount => (retryCount' = 0 /\ ResetStep)]_vars

\* C22: at most one retry timer is pending in every state, and every failure
\* report the transport can make (subscribe callback or system route) leaves
\* at most one, also when a timer is already pending.
C22_OneRetryTimer ==
  /\ Cardinality(timers) <= 1
  /\ MacroTask =>
       /\ \A c \in Channels, st \in {"CHANNEL_ERROR", "TIMED_OUT"} :
            CanReport(chan[c].st, st) => Cardinality(Reported(c, st).timers) <= 1
       /\ \A c \in Channels :
            chan[c].st = "joined" => Cardinality(onSystem(S, "error").timers) <= 1

\* A timer armed by the system route is pending and the subscribe callback of
\* the same channel can still report a failure.
C22_Witness ==
  /\ MacroTask
  /\ connectionStatus = "retrying"
  /\ Cardinality(timers) = 1
  /\ \E c \in Channels : chan[c].st = "joined" /\ channelRef = c
  /\ Cardinality(Reported(channelRef, "CHANNEL_ERROR").timers) = 1

\* What a foreground report leaves of the client, the lifecycle ref aside.
Foreground == [handleAppStateChange(S, "active") EXCEPT !.appStateRef = appStateRef]

\* C23: a foreground report starts an open attempt only when the previous
\* lifecycle state was background or inactive, enabled = true and the
\* network is online; otherwise (enabled = false, offline, or already
\* active) it changes nothing.
C23_ForegroundGuarded ==
  (mounted /\ Idle) =>
    /\ Foreground # S => (IsBackground(appStateRef) /\ enabled /\ isNetworkConnectedRef)
    /\ (IsBackground(appStateRef) /\ enabled /\ table # "" /\ isNetworkConnectedRef) =>
         Foreground.connectionStatus = "connecting"

C23_Witness ==
  /\ mounted /\ Idle
  /\ IsBackground(appStateRef)
  /\ enabled /\ table # "" /\ isNetworkConnectedRef
  /\ connectionStatus = "disconnected"
  /\ Foreground.connectionStatus = "connecting"
  /\ Foreground.calls # calls

\* C24: the isConnected flag is true in exactly the states where
\* status = connected.
C24_FlagIsStatus == isConnected <=> connectionStatus = "connected"

\* C25: a status report of a channel that is not the client's current handle
\* (replaced by a later connect() or left behind by disconnect()) changes
\* neither the status, nor retryCount, nor the heartbeat timer, nor the retry
\* timer.
C25_StaleReportIgnored ==
  MacroTask =>
    \A c \in Channels, st \in {"SUBSCRIBED", "CHANNEL_ERROR", "TIMED_OUT", "CLOSED"} :
      (CanReport(chan[c].st, st) /\ channelRef # c /\ ~Referenced(S, c)) =>
        /\ Reported(c, st).connectionStatus = connectionStatus
        /\ Reported(c, st).retryCount = retryCount
        /\ Reported(c, st).heartbeatRef = heartbeatRef
        /\ Reported(c, st).timers = timers

\* C26: retryCount never exceeds retryAttempts: not in the current state, and
\* not after the firing of a retry timer that is pending in it (a pending
\* timer starts one more open attempt and counts it).
C26_CountWithinBudget ==
  /\ retryCount <= retryAttempts
  /\ \A t \in timers : onRetryTimer(S, t.id).retryCount <= retryAttempts

\* C27: whenever the status is connected, disconnected or
\* max_retries_exceeded no retry timer is pending.
C27_TimerOnlyWhileRetrying ==
  connectionStatus \in {"connected", "disconnected", "max_retries_exceeded"} => timers = {}

\* C28: whenever status = retrying a retry timer is pending.
C28_RetryingHasTimer == connectionStatus = "retrying" => timers # {}

\* C29: with enabled = false no channel is created, no retry or heartbeat
\* timer is armed and the status is never connecting or connected.
C29_DisabledIsInert ==
  ~enabled =>
    /\ \A c \in Channels : chan[c].st = "unused"
    /\ calls = EmptyBag \/ \A r \in CallRecords : r.pc = "then"
    /\ timers = {}
    /\ heartbeatRef = Null
    /\ connectionStatus \notin {"connecting", "connected"}

C29_Witness ==
  /\ ~enabled
  /\ mounted
  /\ phase = "other"
  /\ IsBackground(appStateRef)
  /\ isNetworkConnectedRef

\* C30: requestCount never exceeds maxRequestsPerHour, also when several
\* requests pass checkRateLimit before any of them increments the counter.
C30_CountWithinLimit == requestCount <= maxRequestsPerHour

====
